---------------------------- MODULE Spec2Model ----------------------------
(***************************************************************************)
(* A model of the eBay watch analyzer's acquisition-to-enrichment          *)
(* pipeline: the dedup store (src/src/storage.py), candidate extraction    *)
(* and the bulk orchestrator (src/src/app.py), the analysis client with    *)
(* its normalizer and rate limiter (src/src/ai_analysis.py).               *)
(*                                                                         *)
(* The module holds several specifications over one set of variables.      *)
(* Each specification moves only its own group of variables and leaves the *)
(* other groups at their idle values:                                      *)
(*   SpecStore   the dedup store and the pipeline runs that mark into it   *)
(*   SpecEnrich  one enrichment call, per-item or bulk                     *)
(*   SpecRate    the rate limiter's wait() against a clock                 *)
(*   SpecNet     one send of a backoff transport, attempt by attempt       *)
(*   SpecScore   the scoring engine on one listing                         *)
(*   SpecRank    the two sorts that order the output artifacts             *)
(***************************************************************************)
EXTENDS Integers, Sequences, FiniteSets, TLC

VARIABLES
    \* ---- dedup store (storage.py) and pipeline runs (app.py) ----
    db,              \* the sqlite file: [created, rows]
    last,            \* the most recent store operation and what it returned
    firstMark,       \* history: item_id -> timestamp of its first mark (0: never)
    candidates,      \* item ids of the candidate rows of the latest run
    seenAtRunStart,  \* history: ids the store held when the latest run began
    \* ---- enrichment (ai_analysis.py, app.py) ----
    env,             \* os.environ: AI_PROVIDER and which API keys are set
    rows,            \* the candidate rows handed to enrichment
    provider,        \* what the remote provider does in this call
    phase,           \* idle | returned | raised
    raised,          \* the exception class that reached the caller ("" if none)
    result,          \* analyze_listing's return value (per-item mode)
    output,          \* _gemini_process_all's DataFrame rows (bulk mode)
    events,          \* rate-limiter waits and HTTP attempts, in order
    \* ---- rate limiter (ai_analysis.py) ----
    now,             \* the clock, time.time()
    lastTs,          \* _LAST_AI_REQUEST_TS
    rl,              \* the wait() call in progress and the history of returns
    \* ---- backoff transports (ai_analysis.py, ebay_api.py) ----
    net,             \* the send in progress: instance, attempt, sleeps, outcome
    \* ---- scoring engine (scoring.py) ----
    scored,          \* the listing, the thresholds and score_item's result
    \* ---- output order (app.py) ----
    ranked           \* the frame handed to sort_values and the sorted frame

storeVars  == <<db, last, firstMark, candidates, seenAtRunStart>>
enrichVars == <<env, rows, provider, phase, raised, result, output, events>>
rateVars   == <<now, lastTs, rl>>
pureVars   == <<net, scored, ranked>>
vars       == <<storeVars, enrichVars, rateVars, pureVars>>

(***************************************************************************)
(* Bounds of the model.                                                    *)
(***************************************************************************)
MaxTs == 3          \* timestamps are 1..MaxTs
MaxTime == 27       \* the clock runs over 1..MaxTime (seconds)
MaxTick == 13       \* the longest single advance of the clock
MaxBatch == 2       \* candidate rows handed to one enrichment run
MaxEntries == 2     \* entries in the analyses array of a bulk response

ItemIds == {"A", "B", "C"}     \* listing identifiers seen by enrichment
StoreIds == {"A", "B"}         \* listing identifiers seen by the dedup store
Timestamps == 1..MaxTs

None == "None"      \* Python's None where the other values are strings

(***************************************************************************)
(* storage.py                                                              *)
(***************************************************************************)
FreshDb == [created |-> FALSE, rows |-> {}]

Row(item_id, timestamp) == [item_id |-> item_id, first_seen_at |-> timestamp]

RowsOf(d, item_id) == {r \in d.rows : r.item_id = item_id}

\* A bug init_db could have: recreating the table on every start.
init_db_recreate(d) == [created |-> TRUE, rows |-> {}]

\* CREATE TABLE IF NOT EXISTS seen_items (item_id PRIMARY KEY, first_seen_at)
init_db(d) == IF d.created THEN d ELSE [created |-> TRUE, rows |-> {}]

\* SELECT 1 FROM seen_items WHERE item_id = ?
is_seen(d, item_id) ==
    IF ~d.created
    THEN [raised |-> "OperationalError", value |-> None]
    ELSE [raised |-> "",
          value |-> IF RowsOf(d, item_id) # {} THEN "True" ELSE "False"]

\* A bug mark_seen could have: no PRIMARY KEY check on insert.
mark_seen_nokey(d, item_id, timestamp) ==
    [db |-> [d EXCEPT !.rows = d.rows \cup {Row(item_id, timestamp)}],
     raised |-> "", value |-> item_id]

\* INSERT INTO seen_items ...; the PRIMARY KEY's IntegrityError is caught and
\* turned into None, a new row returns the item id.
mark_seen(d, item_id, timestamp) ==
    IF ~d.created
    THEN [db |-> d, raised |-> "OperationalError", value |-> None]
    ELSE IF RowsOf(d, item_id) # {}
         THEN [db |-> d, raised |-> "", value |-> None]
         ELSE [db |-> [d EXCEPT !.rows = d.rows \cup {Row(item_id, timestamp)}],
               raised |-> "", value |-> item_id]

(***************************************************************************)
(* app.py: candidate extraction                                            *)
(***************************************************************************)
\* Sequences of distinct item ids: what fetch_items returns (it drops an id it
\* has already collected in this run, and drops empty ids).
DistinctSeqs(S) ==
    {s \in UNION {[1..n -> S] : n \in 0..Cardinality(S)} :
        \A i, j \in 1..Len(s) : i # j => s[i] # s[j]}

RECURSIVE extract_loop(_, _, _, _, _)
\* The loop of _extract_candidates over summaries[i..]: a summary whose fetch
\* fails is skipped; every other one becomes a candidate and is marked, the
\* value mark_seen returns being dropped.
extract_loop(summaries, i, failing, run_timestamp, acc) ==
    IF i > Len(summaries) THEN acc
    ELSE LET item_id == summaries[i] IN
         IF item_id \in failing
         THEN extract_loop(summaries, i + 1, failing, run_timestamp, acc)
         ELSE LET m == mark_seen(acc.db, item_id, run_timestamp) IN
              extract_loop(summaries, i + 1, failing, run_timestamp,
                           [db |-> m.db,
                            candidates |-> Append(acc.candidates, item_id)])

_extract_candidates(d, summaries, failing, run_timestamp) ==
    extract_loop(summaries, 1, failing, run_timestamp,
                 [db |-> d, candidates |-> <<>>])

\* History: the first mark of an id fixes its entry in firstMark.
\* What fetch_items can hand to _extract_candidates.
Summaries == DistinctSeqs(StoreIds)

SeqRange(s) == {s[k] : k \in 1..Len(s)}

NoteMarks(fm, ids, timestamp) ==
    [i \in StoreIds |-> IF i \in ids /\ fm[i] = 0 THEN timestamp ELSE fm[i]]

(***************************************************************************)
(* Store operations                                                        *)
(***************************************************************************)
InitDb ==
    /\ db' = init_db(db)
    /\ last' = [op |-> "init_db", item_id |-> "", timestamp |-> 0,
                raised |-> "", value |-> None, markedBefore |-> FALSE]
    /\ UNCHANGED <<firstMark, candidates, seenAtRunStart>>
    /\ UNCHANGED <<enrichVars, rateVars, pureVars>>

IsSeen ==
    \E item_id \in StoreIds :
        LET r == is_seen(db, item_id) IN
        /\ last' = [op |-> "is_seen", item_id |-> item_id, timestamp |-> 0,
                    raised |-> r.raised, value |-> r.value,
                    markedBefore |-> firstMark[item_id] # 0]
        /\ UNCHANGED <<db, firstMark, candidates, seenAtRunStart>>
        /\ UNCHANGED <<enrichVars, rateVars, pureVars>>

MarkSeen ==
    \E item_id \in StoreIds, timestamp \in Timestamps :
        LET m == mark_seen(db, item_id, timestamp) IN
        /\ db' = m.db
        /\ last' = [op |-> "mark_seen", item_id |-> item_id,
                    timestamp |-> timestamp,
                    raised |-> m.raised, value |-> m.value,
                    markedBefore |-> firstMark[item_id] # 0]
        /\ firstMark' = NoteMarks(firstMark, {item_id}, timestamp)
        /\ UNCHANGED <<candidates, seenAtRunStart>>
        /\ UNCHANGED <<enrichVars, rateVars, pureVars>>

\* main(), from run_timestamp to the candidate list: init_db, fetch_items
\* (the summaries), _extract_candidates.
RunPipeline ==
    \E run_timestamp \in Timestamps, summaries \in Summaries :
    \E failing \in SUBSET SeqRange(summaries) :
        LET d0 == init_db(db)
            r  == _extract_candidates(d0, summaries, failing, run_timestamp)
            marked == SeqRange(r.candidates)
        IN
        /\ db' = r.db
        /\ candidates' = r.candidates
        /\ seenAtRunStart' = {i \in StoreIds : is_seen(d0, i).value = "True"}
        /\ firstMark' = NoteMarks(firstMark, marked, run_timestamp)
        /\ last' = [op |-> "main", item_id |-> "", timestamp |-> run_timestamp,
                    raised |-> "", value |-> None, markedBefore |-> FALSE]
        /\ UNCHANGED <<enrichVars, rateVars, pureVars>>

(***************************************************************************)
(* ai_analysis.py: values. A JSON or Python value is a record              *)
(* [t, n, s, items]: its type tag and, by type, its number, its string or  *)
(* its list of strings. Amounts are whole numbers.                         *)
(***************************************************************************)
JNull == [t |-> "null", n |-> 0, s |-> "", items |-> <<>>]
JNum(x) == [t |-> "num", n |-> x, s |-> "", items |-> <<>>]
JStr(x) == [t |-> "str", n |-> 0, s |-> x, items |-> <<>>]
JBool(b) == [t |-> "bool", n |-> IF b THEN 1 ELSE 0, s |-> "", items |-> <<>>]
JList(xs) == [t |-> "list", n |-> 0, s |-> "", items |-> xs]

IsNone(v) == v.t = "null"

\* Python truthiness: bool(x), `if x`, `x or y`.
Truthy(v) ==
    CASE v.t = "null" -> FALSE
      [] v.t = "num"  -> v.n # 0
      [] v.t = "bool" -> v.n # 0
      [] v.t = "str"  -> v.s # ""
      [] v.t = "list" -> v.items # <<>>
      [] OTHER        -> TRUE

\* dict.get(key): the value, or None when the key is missing.
Get(d, key) == IF key \in DOMAIN d THEN d[key] ELSE JNull

EmptyDict == [k \in {} |-> JNull]

\* float(s) on the strings the model uses: a decimal numeral parses, anything
\* else raises ValueError.
NumeralValue(str) ==
    CASE str = "150" -> 150
      [] str = "20"  -> 20
      [] str = "0"   -> 0
      [] OTHER       -> 0 - 1

IsNumeral(str) == str \in {"150", "20", "0"}

\* _safe_float: None stays None, float(value) otherwise, None again when
\* float raises TypeError (a list) or ValueError (a non-numeric string).
_safe_float(v) ==
    CASE v.t = "null" -> JNull
      [] v.t = "num"  -> v
      [] v.t = "bool" -> JNum(v.n)
      [] v.t = "str"  -> IF IsNumeral(v.s) THEN JNum(NumeralValue(v.s)) ELSE JNull
      [] OTHER        -> JNull

\* `_safe_float(x) or 0.0`
OrZero(v) == IF Truthy(v) THEN v.n ELSE 0

\* ";".join(str(x) for x in needed_parts if x), on the lists the model uses.
JoinParts(xs) ==
    LET kept == SelectSeq(xs, LAMBDA x : x # "") IN
    CASE kept = <<>>                  -> ""
      [] Len(kept) = 1                -> kept[1]
      [] kept = <<"crown", "battery">> -> "crown;battery"
      [] OTHER                        -> "joined"

AI_RESULT_KEYS ==
    {"ai_provider", "ai_model", "ai_flip_candidate", "ai_equivalent_sale_price",
     "ai_sell_ease", "ai_needed_parts", "ai_parts_cost_estimate",
     "ai_confidence", "ai_summary", "ai_estimated_profit", "ai_error"}

\* The value fields of an Analysis Result: all but provider, model and error.
ValueKeys == AI_RESULT_KEYS \ {"ai_provider", "ai_model", "ai_error"}

GEMINI_MODEL == "gemini-3-flash-preview"
OPENAI_MODEL == "gpt-4.1-mini"

\* A bug the normalizer could have: leaving the parts cost out of the profit.
normalize_no_parts(parsed, prov, model, all_in_cost) ==
    LET esp == _safe_float(Get(parsed, "equivalent_sale_price"))
        pce == _safe_float(Get(parsed, "parts_cost_estimate"))
        np  == Get(parsed, "needed_parts")
    IN [ai_provider |-> JStr(prov),
        ai_model |-> JStr(model),
        ai_flip_candidate |->
            IF parsed # EmptyDict
            THEN JBool(Truthy(Get(parsed, "flip_candidate"))) ELSE JNull,
        ai_equivalent_sale_price |-> esp,
        ai_sell_ease |-> Get(parsed, "sell_ease"),
        ai_needed_parts |->
            JStr(JoinParts(IF np.t = "list" THEN np.items ELSE <<>>)),
        ai_parts_cost_estimate |-> pce,
        ai_confidence |-> _safe_float(Get(parsed, "confidence")),
        ai_summary |-> Get(parsed, "summary"),
        ai_estimated_profit |->
            IF ~IsNone(esp) THEN JNum(esp.n - all_in_cost) ELSE JNull,
        ai_error |-> JNull]

\* _normalize_analysis on a parsed dict. ai_error is always None here.
_normalize_analysis(parsed, prov, model, all_in_cost) ==
    LET esp == _safe_float(Get(parsed, "equivalent_sale_price"))
        pce == _safe_float(Get(parsed, "parts_cost_estimate"))
        np  == Get(parsed, "needed_parts")
    IN [ai_provider |-> JStr(prov),
        ai_model |-> JStr(model),
        ai_flip_candidate |->
            IF parsed # EmptyDict
            THEN JBool(Truthy(Get(parsed, "flip_candidate"))) ELSE JNull,
        ai_equivalent_sale_price |-> esp,
        ai_sell_ease |-> Get(parsed, "sell_ease"),
        ai_needed_parts |->
            JStr(JoinParts(IF np.t = "list" THEN np.items ELSE <<>>)),
        ai_parts_cost_estimate |-> pce,
        ai_confidence |-> _safe_float(Get(parsed, "confidence")),
        ai_summary |-> Get(parsed, "summary"),
        ai_estimated_profit |->
            IF ~IsNone(esp)
            THEN JNum(esp.n - all_in_cost - OrZero(pce)) ELSE JNull,
        ai_error |-> JNull]

\* _empty_result(provider, reason)
_empty_result(prov, reason) ==
    [ai_provider |-> JStr(prov),
     ai_model |-> JNull,
     ai_flip_candidate |-> JNull,
     ai_equivalent_sale_price |-> JNull,
     ai_sell_ease |-> JNull,
     ai_needed_parts |-> JNull,
     ai_parts_cost_estimate |-> JNull,
     ai_confidence |-> JNull,
     ai_summary |-> JNull,
     ai_estimated_profit |-> JNull,
     ai_error |-> JStr(reason)]

\* The text a provider response reduces to: empty, not JSON ("garbage"), or
\* JSON, bare ("json") or inside a ```json fence ("fenced"), denoting `value`.
\* A top-level JSON value is [t, d, an, entries]: a dict with scalar fields d
\* whose "analyses" key is missing, not a list, or the list `entries`; or a
\* top-level list.
Text(kind, value) == [kind |-> kind, value |-> value]

TopDict(d) == [t |-> "dict", d |-> d, an |-> "missing", entries |-> <<>>]
TopAnalyses(entries) ==
    [t |-> "dict", d |-> EmptyDict, an |-> "list", entries |-> entries]
TopBadAnalyses == [t |-> "dict", d |-> EmptyDict, an |-> "notlist", entries |-> <<>>]
TopList == [t |-> "list", d |-> EmptyDict, an |-> "missing", entries |-> <<>>]

\* _parse_json: {} for empty text, {} when json.loads raises, else the value
\* json.loads returns (after the fence is stripped).
_parse_json(text) ==
    CASE text.kind = "empty"   -> TopDict(EmptyDict)
      [] text.kind = "garbage" -> TopDict(EmptyDict)
      [] OTHER                 -> text.value

(***************************************************************************)
(* ai_analysis.py: the backoff transport. A script gives the outcome the   *)
(* network has in store for each attempt: an HTTP status, or 0 for a       *)
(* Timeout, ConnectionError or ChunkedEncodingError.                       *)
(***************************************************************************)
retries == 6
base_delay == 2
retriable_statuses == {429, 500, 502, 503, 504}

RECURSIVE Pow2(_)
Pow2(k) == IF k = 0 THEN 1 ELSE 2 * Pow2(k - 1)

RECURSIVE backoff_loop(_, _, _)
\* The for loop of _request_with_backoff from `attempt` on; `delays` are the
\* sleeps taken so far.
backoff_loop(script, attempt, delays) ==
    IF attempt >= retries
    THEN [kind |-> "raise", exc |-> "AiAnalysisError",
          msg |-> "AI retries exceeded", attempts |-> attempt,
          delays |-> delays]
    ELSE LET status == script[attempt + 1] IN
         IF status = 0 \/ status \in retriable_statuses
         THEN backoff_loop(script, attempt + 1,
                           Append(delays, base_delay * Pow2(attempt)))
         ELSE IF status >= 400
              THEN [kind |-> "raise", exc |-> "AiAnalysisError",
                    msg |-> "AI HTTP error", attempts |-> attempt + 1,
                    delays |-> delays]
              ELSE [kind |-> "response", exc |-> "", msg |-> "",
                    attempts |-> attempt + 1, delays |-> delays]

_request_with_backoff(script) == backoff_loop(script, 0, <<>>)

Const6(x) == [k \in 1..retries |-> x]

\* The network behaviours an enrichment call is tried against.
AllOk == Const6(200)
FailingScripts ==
    {Const6(400), Const6(0), Const6(503), <<0, 404, 200, 200, 200, 200>>}
RecoveringScripts == {<<503, 200, 200, 200, 200, 200>>,
                      <<0, 429, 200, 200, 200, 200>>}

HttpEvents(n) == [k \in 1..n |-> "http"]

(***************************************************************************)
(* ai_analysis.py: one enrichment call. A reply is what the provider does: *)
(* the transport script, the HTTP body (undecodable for response.json(),   *)
(* without any text part, or carrying text) and the text.                  *)
(***************************************************************************)
Reply(script, body, text) == [script |-> script, body |-> body, text |-> text]

NoText == Text("empty", TopDict(EmptyDict))
NoReply == Reply(AllOk, "none", NoText)

Outcome(ph, exc, res, ev) ==
    [phase |-> ph, raised |-> exc, result |-> res, events |-> ev]

\* response.json(), the provider's text extraction, _parse_json.
Decode(reply) ==
    IF reply.body = "undecodable"
    THEN [ok |-> FALSE, exc |-> "JSONDecodeError", parsed |-> TopList]
    ELSE [ok |-> TRUE, exc |-> "",
          parsed |-> _parse_json(IF reply.body = "notext" THEN NoText
                                 ELSE reply.text)]

\* A bug the per-item call could have: going to the network without looking
\* at the key.
provider_call_nokey(prov, model, keyName, hasKey, row, reply) ==
    LET r  == _request_with_backoff(reply.script)
        ev == <<"send">> \o HttpEvents(r.attempts)
        dc == Decode(reply)
    IN IF r.kind = "raise" THEN Outcome("raised", r.exc, EmptyDict, ev)
       ELSE IF ~dc.ok THEN Outcome("raised", dc.exc, EmptyDict, ev)
       ELSE IF dc.parsed.t # "dict"
            THEN Outcome("raised", "AttributeError", EmptyDict, ev)
       ELSE Outcome("returned", "",
                    _normalize_analysis(dc.parsed.d, prov, model,
                        OrZero(_safe_float(row.all_in_cost))),
                    ev)

\* The body shared by _analyze_with_openai and _analyze_with_gemini: a missing
\* key short-circuits; a transport failure, an undecodable body and a parsed
\* value without .get all propagate as exceptions.
provider_call(prov, model, keyName, hasKey, row, reply) ==
    IF ~hasKey
    THEN Outcome("returned", "", _empty_result(prov, keyName), <<>>)
    ELSE LET r  == _request_with_backoff(reply.script)
             ev == <<"send">> \o HttpEvents(r.attempts)
             dc == Decode(reply)
         IN IF r.kind = "raise" THEN Outcome("raised", r.exc, EmptyDict, ev)
            ELSE IF ~dc.ok THEN Outcome("raised", dc.exc, EmptyDict, ev)
            ELSE IF dc.parsed.t # "dict"
                 THEN Outcome("raised", "AttributeError", EmptyDict, ev)
            ELSE Outcome("returned", "",
                         _normalize_analysis(dc.parsed.d, prov, model,
                             OrZero(_safe_float(row.all_in_cost))),
                         ev)

_analyze_with_openai(e, row, reply) ==
    provider_call("openai", OPENAI_MODEL, "OPENAI_API_KEY missing",
                  e.OPENAI_API_KEY, row, reply)

_analyze_with_gemini(e, row, reply) ==
    provider_call("gemini", GEMINI_MODEL, "GEMINI_API_KEY missing",
                  e.GEMINI_API_KEY, row, reply)

Prepend(ev, o) == [o EXCEPT !.events = ev \o o.events]

analyze_listing(e, row, reply) ==
    IF e.AI_PROVIDER = ""
    THEN Outcome("returned", "",
                 _empty_result("disabled", "AI_PROVIDER not configured"), <<>>)
    ELSE Prepend(<<"rate_limit">>,
         CASE e.AI_PROVIDER = "openai" -> _analyze_with_openai(e, row, reply)
           [] e.AI_PROVIDER = "gemini" -> _analyze_with_gemini(e, row, reply)
           [] OTHER -> Outcome("returned", "",
                               _empty_result(e.AI_PROVIDER,
                                             "Unsupported AI_PROVIDER"),
                               <<>>))

(***************************************************************************)
(* ai_analysis.py: bulk mode                                               *)
(***************************************************************************)
\* str(x) and str.strip() on the identifiers the model uses.
Strip(str) ==
    CASE str = " A " -> "A"
      [] str = "  "  -> ""
      [] OTHER       -> str

\* str(entry.get("itemId") or "").strip()
EntryId(d) ==
    LET v == Get(d, "itemId") IN IF Truthy(v) THEN Strip(v.s) ELSE ""

Put(f, key, val) ==
    [k \in DOMAIN f \cup {key} |-> IF k = key THEN val ELSE f[k]]

\* One entry of the analyses array, normalized. The all_in_cost handed to the
\* normalizer is the one the entry carries; an ai_error of the entry is kept.
bulk_entry(d) ==
    LET normalized == _normalize_analysis(d, "gemini", GEMINI_MODEL,
                          OrZero(_safe_float(Get(d, "all_in_cost"))))
    IN IF Truthy(Get(d, "ai_error")) /\ ~Truthy(normalized.ai_error)
       THEN [normalized EXCEPT !.ai_error = JStr(Get(d, "ai_error").s)]
       ELSE normalized

RECURSIVE bulk_loop(_, _, _)
\* for entry in analyses: non-dict entries and entries without an id are
\* skipped, a later entry for an id replaces an earlier one.
bulk_loop(entries, i, result_by_item) ==
    IF i > Len(entries) THEN result_by_item
    ELSE LET entry == entries[i] IN
         IF entry.t # "dict" \/ EntryId(entry.d) = ""
         THEN bulk_loop(entries, i + 1, result_by_item)
         ELSE bulk_loop(entries, i + 1,
                        Put(result_by_item, EntryId(entry.d), bulk_entry(entry.d)))

BulkRaise(exc, msg, ev) ==
    [kind |-> "raise", exc |-> exc, msg |-> msg, result_by_item |-> EmptyDict,
     events |-> ev]

analyze_gemini_bulk(e, rs, reply) ==
    IF e.AI_PROVIDER # "gemini"
    THEN BulkRaise("AiAnalysisError",
                   "Bulk Gemini analysis requires AI_PROVIDER=gemini", <<>>)
    ELSE IF ~e.GEMINI_API_KEY
    THEN BulkRaise("AiAnalysisError", "GEMINI_API_KEY missing", <<>>)
    ELSE LET r  == _request_with_backoff(reply.script)
             ev == <<"rate_limit", "send">> \o HttpEvents(r.attempts)
             dc == Decode(reply)
         IN IF r.kind = "raise" THEN BulkRaise(r.exc, r.msg, ev)
            ELSE IF ~dc.ok THEN BulkRaise(dc.exc, "", ev)
            ELSE IF dc.parsed.t # "dict" \/ dc.parsed.an # "list"
                 THEN BulkRaise("AiAnalysisError",
                                "Gemini bulk response missing 'analyses' array",
                                ev)
            ELSE [kind |-> "return", exc |-> "", msg |-> "",
                  result_by_item |-> bulk_loop(dc.parsed.entries, 1, EmptyDict),
                  events |-> ev]

(***************************************************************************)
(* app.py: the bulk orchestrator                                           *)
(***************************************************************************)
_default_ai_error(prov, model, message) ==
    [ai_provider |-> JStr(prov),
     ai_model |-> JStr(model),
     ai_flip_candidate |-> JNull,
     ai_equivalent_sale_price |-> JNull,
     ai_sell_ease |-> JNull,
     ai_needed_parts |-> JNull,
     ai_parts_cost_estimate |-> JNull,
     ai_confidence |-> JNull,
     ai_summary |-> JNull,
     ai_estimated_profit |-> JNull,
     ai_error |-> JStr(message)]

\* for key in AI_RESULT_KEYS: ai_result.setdefault(key, None)
SetDefaults(r) ==
    [k \in DOMAIN r \cup AI_RESULT_KEYS |-> IF k \in DOMAIN r THEN r[k] ELSE JNull]

\* enriched = dict(row); enriched.update(ai_result)
Enriched(row, ai) ==
    [k \in DOMAIN row \cup DOMAIN ai |-> IF k \in DOMAIN ai THEN ai[k] ELSE row[k]]

\* str(row.get("itemId") or "")
RowId(row) == IF Truthy(row.itemId) THEN row.itemId.s ELSE ""

\* A bug the enriched sort could have: ordering by the profit alone.
ProfitBeforeNoScore(a, b) ==
    LET pa == a.ai_estimated_profit
        pb == b.ai_estimated_profit
    IN IF IsNone(pa) # IsNone(pb) THEN ~IsNone(pa)
       ELSE ~IsNone(pa) /\ pa.n > pb.n

\* sort_values(by = [ai_estimated_profit, score_total], ascending = [False,
\* False], na_position = "last"): whether row a sorts strictly before row b.
ProfitBefore(a, b) ==
    LET pa == a.ai_estimated_profit
        pb == b.ai_estimated_profit
    IN IF IsNone(pa) # IsNone(pb) THEN ~IsNone(pa)
       ELSE IF ~IsNone(pa) /\ pa.n # pb.n THEN pa.n > pb.n
       ELSE a.score_total.n > b.score_total.n

RECURSIVE InsertRow(_, _, _)
\* x goes before the first row from position i on that it sorts strictly before.
InsertRow(sorted, x, i) ==
    IF i > Len(sorted) THEN Append(sorted, x)
    ELSE IF ProfitBefore(x, sorted[i])
         THEN SubSeq(sorted, 1, i - 1) \o <<x>> \o SubSeq(sorted, i, Len(sorted))
         ELSE InsertRow(sorted, x, i + 1)

RECURSIVE SortRows(_, _, _)
\* The stable sort of rs[i..] into acc.
SortRows(rs, i, acc) ==
    IF i > Len(rs) THEN acc ELSE SortRows(rs, i + 1, InsertRow(acc, rs[i], 1))

\* A bug the orchestrator could have: dropping the rows the response skipped.
process_all_dropping(e, rs, reply) ==
    LET b == analyze_gemini_bulk(e, rs, reply)
        got == IF b.kind = "raise" THEN EmptyDict ELSE b.result_by_item
        kept == SelectSeq(rs, LAMBDA row : RowId(row) \in DOMAIN got)
        processed == [k \in 1..Len(kept) |->
                         Enriched(kept[k], SetDefaults(got[RowId(kept[k])]))]
    IN IF b.kind = "raise" /\ b.exc # "AiAnalysisError"
       THEN [phase |-> "raised", raised |-> b.exc, output |-> <<>>,
             events |-> b.events]
       ELSE [phase |-> "returned", raised |-> "",
             output |-> SortRows(processed, 1, <<>>), events |-> b.events]

\* _gemini_process_all: an AiAnalysisError of the bulk call is caught and its
\* message becomes every row's error; any other exception propagates. Rows the
\* response did not cover get _default_ai_error; the frame is then sorted.
_gemini_process_all(e, rs, reply) ==
    LET b == analyze_gemini_bulk(e, rs, reply)
        bulk_results == IF b.kind = "raise" THEN EmptyDict ELSE b.result_by_item
        bulk_error == IF b.kind = "raise" THEN b.msg
                      ELSE "No per-item AI output from bulk response"
        processed ==
            [k \in 1..Len(rs) |->
                LET item_id == RowId(rs[k]) IN
                Enriched(rs[k],
                    IF item_id \in DOMAIN bulk_results
                    THEN SetDefaults(bulk_results[item_id])
                    ELSE _default_ai_error("gemini", GEMINI_MODEL, bulk_error))]
    IN IF b.kind = "raise" /\ b.exc # "AiAnalysisError"
       THEN [phase |-> "raised", raised |-> b.exc, output |-> <<>>,
             events |-> b.events]
       ELSE [phase |-> "returned", raised |-> "",
             output |-> SortRows(processed, 1, <<>>), events |-> b.events]

(***************************************************************************)
(* Idle values of each group, for the specifications that do not move it.  *)
(***************************************************************************)
StoreIdle ==
    /\ db = init_db(FreshDb)
    /\ last = [op |-> "init_db", item_id |-> "", timestamp |-> 0,
               raised |-> "", value |-> None, markedBefore |-> FALSE]
    /\ firstMark = [i \in StoreIds |-> 0]
    /\ candidates = <<>>
    /\ seenAtRunStart = {}

EnrichIdle ==
    /\ env = [AI_PROVIDER |-> "", GEMINI_API_KEY |-> FALSE,
              OPENAI_API_KEY |-> FALSE]
    /\ rows = <<>>
    /\ provider = [mode |-> "none", k |-> 0, reply |-> NoReply]
    /\ phase = "idle"
    /\ raised = ""
    /\ result = EmptyDict
    /\ output = <<>>
    /\ events = <<>>

RateIdle ==
    /\ now = 1
    /\ lastTs = 0
    /\ rl = [pc |-> "idle", rpm |-> 5, readAt |-> 0, sleepFor |-> 0,
             wakeAt |-> 0, tsAtEntry |-> 0, calls |-> 0, prevReturn |-> 0,
             lastReturn |-> 0]

NetIdle ==
    net = [inst |-> "none", pc |-> "idle", attempt |-> 0, seen |-> <<>>,
           delays |-> <<>>, exc |-> "", msg |-> ""]

ScoreIdle == scored = [pc |-> "idle"]

RankIdle == ranked = [mode |-> "none", input |-> <<>>, output |-> <<>>]

PureIdle == NetIdle /\ ScoreIdle /\ RankIdle

(***************************************************************************)
(* SpecStore: the store after main's init_db on a fresh file, then any     *)
(* interleaving of init_db, is_seen, mark_seen and whole pipeline runs.    *)
(***************************************************************************)
InitStore == StoreIdle /\ EnrichIdle /\ RateIdle /\ PureIdle

NextStore == InitDb \/ IsSeen \/ MarkSeen \/ RunPipeline

SpecStore == InitStore /\ [][NextStore]_vars

(***************************************************************************)
(* The inputs enrichment is tried on                                       *)
(***************************************************************************)
\* all_in_cost of the candidate rows: C's price did not parse.
CostOf(id) == CASE id = "A" -> JNum(80) [] id = "B" -> JNum(100) [] OTHER -> JNull
ScoreOf(id) == CASE id = "A" -> 10 [] OTHER -> 20

CandidateRow(id) ==
    [itemId |-> JStr(id), all_in_cost |-> CostOf(id), score_total |-> JNum(ScoreOf(id))]

RowLists ==
    {[k \in 1..Len(ids) |-> CandidateRow(ids[k])] :
        ids \in {q \in DistinctSeqs(ItemIds) : Len(q) \in 1..MaxBatch}}

Envs == [AI_PROVIDER : {"", "gemini", "openai", "claude"},
         GEMINI_API_KEY : BOOLEAN, OPENAI_API_KEY : BOOLEAN]

Absent == [t |-> "absent", n |-> 0, s |-> "", items |-> <<>>]

\* The dict holding the keys of f whose value is not Absent.
Present(f) == [k \in {x \in DOMAIN f : f[x].t # "absent"} |-> f[k]]

\* Per-item provider dicts: every mix of a sale price and a parts cost that is
\* missing, a number, zero, a numeral string or an unparseable string.
ItemDicts ==
    {Present(f) : f \in
        [equivalent_sale_price : {Absent, JNum(150), JNum(0), JStr("150"), JStr("n/a")},
         parts_cost_estimate : {Absent, JNum(20), JNum(0), JStr("20"), JStr("n/a")},
         flip_candidate : {Absent, JBool(TRUE), JBool(FALSE)},
         needed_parts : {Absent, JList(<<"crown", "battery">>), JStr("crown")}]}

T_full ==
    [flip_candidate |-> JBool(TRUE), equivalent_sale_price |-> JNum(150),
     sell_ease |-> JStr("high"), needed_parts |-> JList(<<"crown", "battery">>),
     parts_cost_estimate |-> JNum(20), confidence |-> JNum(1),
     summary |-> JStr("ok"), all_in_cost |-> JNum(80)]
T_bare == [equivalent_sale_price |-> JNum(150)]
T_noprice == [flip_candidate |-> JBool(FALSE), summary |-> JStr("skip")]
T_error == [ai_error |-> JStr("blurry photo")]
T_str ==
    [equivalent_sale_price |-> JStr("150"), parts_cost_estimate |-> JStr("n/a"),
     all_in_cost |-> JNum(90)]

BulkTemplates == {T_full, T_bare, T_noprice, T_error}

DictEntry(d) == [t |-> "dict", d |-> d]

\* Entries of a bulk response: each template under each id, an entry whose id
\* is padded with blanks, an entry with a numeral string for a price and
\* another all_in_cost, an entry for an id nobody asked about, an entry
\* without an id, and an entry that is not a dict.
Entries ==
    {DictEntry(Put(tpl, "itemId", JStr(i))) : tpl \in BulkTemplates, i \in ItemIds}
    \cup {DictEntry(Put(T_bare, "itemId", JStr(" A "))),
          DictEntry(Put(T_str, "itemId", JStr("B"))),
          DictEntry(Put(T_bare, "itemId", JStr("Z"))), DictEntry(T_bare),
          [t |-> "str", d |-> EmptyDict]}

AnalysesLists == UNION {[1..n -> Entries] : n \in 0..MaxEntries}

WorkingScripts == {AllOk} \cup RecoveringScripts

TransportFailures == {Reply(sc, "text", NoText) : sc \in FailingScripts}

ItemReplies ==
    TransportFailures
    \cup {Reply(sc, b, NoText) : sc \in WorkingScripts, b \in {"undecodable", "notext"}}
    \cup {Reply(sc, "text", tx) : sc \in WorkingScripts,
             tx \in {NoText, Text("garbage", TopDict(EmptyDict)),
                     Text("json", TopList), Text("json", TopDict(EmptyDict))}}
    \cup {Reply(AllOk, "text", Text(kind, TopDict(d))) :
             kind \in {"json", "fenced"}, d \in ItemDicts \cup {T_full}}

BulkReplies ==
    TransportFailures
    \cup {Reply(sc, b, NoText) : sc \in WorkingScripts, b \in {"undecodable", "notext"}}
    \cup {Reply(sc, "text", tx) : sc \in WorkingScripts,
             tx \in {NoText, Text("garbage", TopDict(EmptyDict)),
                     Text("json", TopList), Text("json", TopDict(T_bare)),
                     Text("json", TopBadAnalyses),
                     Text("fenced", TopAnalyses(<<>>))}}
    \cup {Reply(AllOk, "text", Text("json", TopAnalyses(es))) : es \in AnalysesLists}

\* Whether the call gets as far as the network under environment e.
ItemCallSends(e) ==
    \/ e.AI_PROVIDER = "gemini" /\ e.GEMINI_API_KEY
    \/ e.AI_PROVIDER = "openai" /\ e.OPENAI_API_KEY

BulkCallSends(e) == e.AI_PROVIDER = "gemini" /\ e.GEMINI_API_KEY

(***************************************************************************)
(* SpecEnrich: an environment and a candidate batch, then one enrichment   *)
(* call: analyze_listing on one row, or _gemini_process_all on the batch.  *)
(***************************************************************************)
AnalyzeListing ==
    /\ phase = "idle"
    /\ \E k \in 1..Len(rows) :
       \E reply \in IF ItemCallSends(env) THEN ItemReplies ELSE {NoReply} :
          LET o == analyze_listing(env, rows[k], reply) IN
          /\ provider' = [mode |-> "item", k |-> k, reply |-> reply]
          /\ phase' = o.phase
          /\ raised' = o.raised
          /\ result' = o.result
          /\ events' = o.events
    /\ UNCHANGED <<env, rows, output>>
    /\ UNCHANGED <<storeVars, rateVars, pureVars>>

\* A bug bulk mode could have: waiting on the rate limiter once per row.
GeminiProcessAllPerRow ==
    /\ phase = "idle"
    /\ \E reply \in IF BulkCallSends(env) THEN BulkReplies ELSE {NoReply} :
          LET o == _gemini_process_all(env, rows, reply) IN
          /\ provider' = [mode |-> "bulk", k |-> 0, reply |-> reply]
          /\ phase' = o.phase
          /\ raised' = o.raised
          /\ output' = o.output
          /\ events' = [k \in 1..(Len(rows) - 1) |-> "rate_limit"] \o o.events
    /\ UNCHANGED <<env, rows, result>>
    /\ UNCHANGED <<storeVars, rateVars, pureVars>>

GeminiProcessAll ==
    /\ phase = "idle"
    /\ \E reply \in IF BulkCallSends(env) THEN BulkReplies ELSE {NoReply} :
          LET o == _gemini_process_all(env, rows, reply) IN
          /\ provider' = [mode |-> "bulk", k |-> 0, reply |-> reply]
          /\ phase' = o.phase
          /\ raised' = o.raised
          /\ output' = o.output
          /\ events' = o.events
    /\ UNCHANGED <<env, rows, result>>
    /\ UNCHANGED <<storeVars, rateVars, pureVars>>

InitEnrich ==
    /\ StoreIdle /\ RateIdle /\ PureIdle
    /\ env \in Envs
    /\ rows \in RowLists
    /\ provider = [mode |-> "none", k |-> 0, reply |-> NoReply]
    /\ phase = "idle"
    /\ raised = ""
    /\ result = EmptyDict
    /\ output = <<>>
    /\ events = <<>>

NextEnrich == AnalyzeListing \/ GeminiProcessAll

SpecEnrich == InitEnrich /\ [][NextEnrich]_vars

(***************************************************************************)
(* Claims about enrichment                                                 *)
(***************************************************************************)
ItemReturned == provider.mode = "item" /\ phase = "returned"
BulkReturned == provider.mode = "bulk" /\ phase = "returned"

\* Whether the call under way reached the network.
CallSent ==
    \/ provider.mode = "item" /\ ItemCallSends(env)
    \/ provider.mode = "bulk" /\ BulkCallSends(env)

AllValuesNull(r) == \A key \in ValueKeys : IsNone(r[key])
HasError(r) == ~IsNone(r.ai_error)
ErrorImpliesNull(r) == HasError(r) => AllValuesNull(r)

\* The identifiers the bulk response echoes back: those of the dict entries
\* of its analyses array, when a response with such an array arrived.
Echoed ==
    IF /\ CallSent
       /\ provider.reply.script \in WorkingScripts
       /\ provider.reply.body = "text"
       /\ provider.reply.text.kind \in {"json", "fenced"}
       /\ provider.reply.text.value.an = "list"
    THEN LET es == provider.reply.text.value.entries IN
         {Strip(es[i].d["itemId"].s) :
             i \in {j \in 1..Len(es) : es[j].t = "dict" /\ "itemId" \in DOMAIN es[j].d}}
    ELSE {}

FailedAttempt ==
    /\ CallSent
    /\ \/ provider.reply.script \in FailingScripts
       \/ provider.reply.body = "undecodable"

Sends == Len(SelectSeq(events, LAMBDA ev : ev = "send"))

\* C5 (as claimed): a failed attempt never raises. The call returns, in
\* per-item mode a schema-complete result with its error set, in bulk mode
\* rows that all carry an error; and the request was handed to the transport
\* once only.
C5_FailedNeverRaises ==
    FailedAttempt =>
        /\ phase = "returned"
        /\ Sends = 1
        /\ provider.mode = "item" =>
              AI_RESULT_KEYS \subseteq DOMAIN result /\ HasError(result)
        /\ provider.mode = "bulk" =>
              \A j \in 1..Len(output) : HasError(output[j])

\* C6 (as claimed): configuration errors are fatal. Bulk enrichment under a
\* provider other than gemini, or without the gemini key, ends in an
\* exception at the orchestrator's caller and produces no enriched rows.
C6_ConfigErrorsAreFatal ==
    (provider.mode = "bulk" /\ ~BulkCallSends(env)) =>
        phase = "raised" /\ output = <<>>

\* C7 (as claimed): in every Analysis Result, of either mode, a non-null
\* error means every value field is null.
C7_ErrorImpliesNullValues ==
    /\ ItemReturned => ErrorImpliesNull(result)
    /\ BulkReturned => \A j \in 1..Len(output) : ErrorImpliesNull(output[j])

\* The provider answered, and its text is empty or is not JSON.
MalformedText ==
    /\ CallSent
    /\ provider.reply.script \in WorkingScripts
    /\ \/ provider.reply.body = "notext"
       \/ /\ provider.reply.body = "text"
          /\ provider.reply.text.kind \in {"empty", "garbage"}

\* C8 (as claimed): malformed provider text is downgraded and marked failed.
\* Nothing is raised, and the listing's Analysis Result has every value field
\* null and a non-null error.
C8_MalformedIsFailed ==
    MalformedText =>
        /\ phase = "returned"
        /\ provider.mode = "item" => AllValuesNull(result) /\ HasError(result)
        /\ provider.mode = "bulk" =>
              \A j \in 1..Len(output) :
                  AllValuesNull(output[j]) /\ HasError(output[j])

\* The profit rule for result r and all-in cost c.
ProfitRule(r, c) ==
    /\ IsNone(r.ai_estimated_profit) <=> IsNone(r.ai_equivalent_sale_price)
    /\ ~IsNone(r.ai_estimated_profit) =>
          /\ r.ai_estimated_profit.t = "num"
          /\ r.ai_estimated_profit.n =
                r.ai_equivalent_sale_price.n - c
                - (IF IsNone(r.ai_parts_cost_estimate) THEN 0
                   ELSE r.ai_parts_cost_estimate.n)

\* The candidate row's all-in cost as a number, a missing one read as 0.
RowCost(row) == IF IsNone(row.all_in_cost) THEN 0 ELSE row.all_in_cost.n

\* The all_in_cost carried by the last entry of the bulk response that
\* echoes id (0 when it carries none).
EchoedCost(id) ==
    LET es == provider.reply.text.value.entries
        m  == {i \in 1..Len(es) : /\ es[i].t = "dict"
                                   /\ "itemId" \in DOMAIN es[i].d
                                   /\ Strip(es[i].d["itemId"].s) = id}
        lastOne == CHOOSE i \in m : \A j \in m : j <= i
        v  == Get(es[lastOne].d, "all_in_cost")
    IN IF v.t = "num" THEN v.n ELSE 0

\* The dict the provider sent for the per-item call under way.
SentDict == provider.reply.text.value.d

\* C9: in every normalized Analysis Result, estimated_profit is non-null
\* exactly when equivalent_sale_price is, and then equals sale price minus
\* the all_in_cost handed to the normalizer minus the parts cost, a missing
\* or unparseable parts cost counting as 0. In per-item mode the all_in_cost
\* is the candidate row's; in bulk mode it is the one the entry carries.
C9_ProfitRule ==
    /\ ItemReturned =>
          /\ ProfitRule(result, RowCost(rows[provider.k]))
          /\ ( /\ CallSent
               /\ provider.reply.body = "text"
               /\ provider.reply.text.kind \in {"json", "fenced"}
               /\ Get(SentDict, "equivalent_sale_price") = JNum(150)
               /\ Get(SentDict, "parts_cost_estimate") \in {JNull, JStr("n/a")} )
             => result.ai_estimated_profit = JNum(150 - RowCost(rows[provider.k]))
    /\ BulkReturned =>
          \A j \in 1..Len(output) :
             ProfitRule(output[j],
                        IF RowId(output[j]) \in Echoed
                        THEN EchoedCost(RowId(output[j])) ELSE 0)

\* C9 witness: the provider sends a sale price of 150 and a parts cost of 20
\* for a row whose all-in cost is 80, and the result's profit is 50.
C9_Witness ==
    /\ ItemReturned
    /\ CallSent
    /\ Get(SentDict, "equivalent_sale_price") = JNum(150)
    /\ Get(SentDict, "parts_cost_estimate") = JNum(20)
    /\ rows[provider.k].all_in_cost = JNum(80)
    /\ result.ai_estimated_profit = JNum(50)

(***************************************************************************)
(* Claims about the dedup store                                            *)
(***************************************************************************)

\* C1: mark is idempotent. A mark_seen call never raises; it returns the item
\* id (newly created) exactly when the id had never been marked before and
\* None (already present) on every later mark of that id, and afterwards the
\* table holds exactly one row for the id.
C1_MarkIdempotent ==
    last.op = "mark_seen" =>
        /\ last.raised = ""
        /\ (~last.markedBefore => last.value = last.item_id)
        /\ (last.markedBefore => last.value = None)
        /\ last.item_id # None
        /\ Cardinality(RowsOf(db, last.item_id)) = 1

\* C1 witness: a second mark of an id, with another timestamp, has returned.
C1_Witness ==
    /\ last.op = "mark_seen"
    /\ last.markedBefore
    /\ last.timestamp # firstMark[last.item_id]
    /\ last.value = None

\* C2: the store is append-only. Every id that was ever marked, directly or
\* by a pipeline run, is reported present by is_seen and its single row still
\* carries the timestamp of its first mark, whatever init_db, is_seen,
\* mark_seen and runs came after.
C2_AppendOnly ==
    \A i \in StoreIds :
        firstMark[i] # 0 =>
            /\ is_seen(db, i) = [raised |-> "", value |-> "True"]
            /\ RowsOf(db, i) = {Row(i, firstMark[i])}

\* C2 witness: an id marked again with a later timestamp than its first mark,
\* its row still carrying the first timestamp.
C2_Witness ==
    /\ last.op = "mark_seen"
    /\ last.markedBefore
    /\ last.timestamp > firstMark[last.item_id]
    /\ RowsOf(db, last.item_id) = {Row(last.item_id, firstMark[last.item_id])}
    /\ Cardinality(db.rows) >= 2

\* C3 (as claimed): no candidate of a run is an id the store already held when
\* the run began.
C3_CandidatesAreNew ==
    \A k \in 1..Len(candidates) : candidates[k] \notin seenAtRunStart

(***************************************************************************)
(* ai_analysis.py: the rate limiter. Time is in whole seconds; the budgets *)
(* tried divide 60, so that 60.0 / rpm is a whole number of seconds.       *)
(***************************************************************************)
DefaultRpm == 5
SecondsPerMinute == 60

\* Values of AI_REQUESTS_PER_MINUTE (unset reads as the default "5").
RpmEnv == {0 - 1, 0, DefaultRpm, 10, 20}

\* rpm = int(os.getenv(...)); if rpm <= 0: rpm = 5
EffectiveRpm(rpm) == IF rpm <= 0 THEN DefaultRpm ELSE rpm

min_interval(rpm) == SecondsPerMinute \div EffectiveRpm(rpm)

\* A bug the pacing could have: sleeping the elapsed time, not the remainder.
sleep_for_elapsed(t, lastRequest, rpm) ==
    IF lastRequest > 0 /\ t - lastRequest < min_interval(rpm)
    THEN t - lastRequest ELSE 0

\* elapsed = now - _LAST_AI_REQUEST_TS; the remaining delta when the last
\* request is set and less than min_interval ago, else no sleep (0).
sleep_for(t, lastRequest, rpm) ==
    IF lastRequest > 0 /\ t - lastRequest < min_interval(rpm)
    THEN min_interval(rpm) - (t - lastRequest) ELSE 0

RlIdle(rpm) ==
    [pc |-> "idle", rpm |-> rpm, readAt |-> 0, sleepFor |-> 0, wakeAt |-> 0,
     tsAtEntry |-> 0, calls |-> 0, prevReturn |-> 0, lastReturn |-> 0]

\* Time passes: between calls (an externally slow request) and between the
\* statements of a call (scheduling jitter). time.time() is taken to be
\* non-decreasing.
Tick ==
    \E d \in 1..MaxTick :
        /\ now + d <= MaxTime
        /\ now' = now + d
        /\ UNCHANGED <<lastTs, rl>>
        /\ UNCHANGED <<storeVars, enrichVars, pureVars>>

\* _apply_rate_limit up to its decision: read the budget and the clock,
\* compute sleep_for.
WaitBegin ==
    /\ rl.pc = "idle"
    /\ LET sf == sleep_for(now, lastTs, rl.rpm) IN
       rl' = [rl EXCEPT !.pc = IF sf > 0 THEN "sleep" ELSE "write",
                        !.readAt = now, !.sleepFor = sf,
                        !.wakeAt = now + sf, !.tsAtEntry = lastTs]
    /\ UNCHANGED <<now, lastTs>>
    /\ UNCHANGED <<storeVars, enrichVars, pureVars>>

\* time.sleep(sleep_for): blocks for at least sleep_for seconds.
Sleep ==
    /\ rl.pc = "sleep"
    /\ now + rl.sleepFor <= MaxTime
    /\ now' = now + rl.sleepFor
    /\ rl' = [rl EXCEPT !.pc = "write"]
    /\ UNCHANGED lastTs
    /\ UNCHANGED <<storeVars, enrichVars, pureVars>>

\* A bug the pacing could have: stamping the time read before the sleep.
WaitEndStale ==
    /\ rl.pc = "write"
    /\ lastTs' = rl.readAt
    /\ rl' = [rl EXCEPT !.pc = "idle",
                        !.calls = IF rl.calls < 2 THEN rl.calls + 1 ELSE 2,
                        !.prevReturn = rl.lastReturn, !.lastReturn = now]
    /\ UNCHANGED now
    /\ UNCHANGED <<storeVars, enrichVars, pureVars>>

\* _LAST_AI_REQUEST_TS = time.time(), the call's last statement: the call
\* returns at this reading of the clock.
WaitEnd ==
    /\ rl.pc = "write"
    /\ lastTs' = now
    /\ rl' = [rl EXCEPT !.pc = "idle",
                        !.calls = IF rl.calls < 2 THEN rl.calls + 1 ELSE 2,
                        !.prevReturn = rl.lastReturn, !.lastReturn = now]
    /\ UNCHANGED now
    /\ UNCHANGED <<storeVars, enrichVars, pureVars>>

(***************************************************************************)
(* SpecRate: one process, _LAST_AI_REQUEST_TS = 0.0 at import, a budget    *)
(* fixed in the environment, then wait() calls one after another.          *)
(***************************************************************************)
InitRate ==
    /\ StoreIdle /\ EnrichIdle /\ PureIdle
    /\ now = 1
    /\ lastTs = 0
    /\ rl \in {RlIdle(rpm) : rpm \in RpmEnv}

NextRate == Tick \/ WaitBegin \/ Sleep \/ WaitEnd

SpecRate == InitRate /\ [][NextRate]_vars

\* C10: rate limiter floor. A wait() call returns at least 60/rpm seconds
\* (rpm <= 0 read as 5, so 12 seconds) after the previous wait() returned;
\* the last-request timestamp is not written while the call is still to
\* sleep or sleeping, is written no earlier than the end of the sleep, and
\* never decreases.
C10_RateFloor ==
    /\ rl.calls >= 2 =>
          (rl.lastReturn - rl.prevReturn) * EffectiveRpm(rl.rpm)
              >= SecondsPerMinute
    /\ (rl.rpm <= 0 /\ rl.calls >= 2) => rl.lastReturn - rl.prevReturn >= 12
    /\ rl.pc # "idle" => lastTs = rl.tsAtEntry
    /\ rl.pc = "idle" => /\ lastTs >= rl.wakeAt
                         /\ lastTs >= rl.tsAtEntry
                         /\ lastTs = rl.lastReturn

\* C10 witness: a second wait() that had to sleep has returned, under the
\* 5-per-minute budget.
C10_Witness ==
    /\ rl.pc = "idle"
    /\ rl.calls >= 2
    /\ rl.sleepFor > 0
    /\ EffectiveRpm(rl.rpm) = 5
    /\ rl.lastReturn - rl.prevReturn = 12


(***************************************************************************)
(* The two backoff transports, attempt by attempt: _request_with_backoff   *)
(* of ai_analysis.py and EbayApi._request_with_backoff of ebay_api.py.     *)
(* The network answers each attempt with an HTTP status, or with 0 for a   *)
(* Timeout, ConnectionError or ChunkedEncodingError raised by requests.    *)
(***************************************************************************)
ebay_retries == 5
ebay_base_delay == 1

NetOutcomes == {0, 200, 304, 400, 501, 429, 500, 502, 503, 504}

\* What each instance is configured with: the ceiling, the base delay, the
\* statuses it sleeps on and whether requests.request sits inside a try.
Transport(inst) ==
    IF inst = "ai"
    THEN [retries |-> retries, base_delay |-> base_delay,
          retriable |-> retriable_statuses, catches |-> TRUE,
          exc |-> "AiAnalysisError"]
    ELSE [retries |-> ebay_retries, base_delay |-> ebay_base_delay,
          retriable |-> {429}, catches |-> FALSE, exc |-> "EbayApiError"]

\* A bug the analysis transport could have: treating every status from 400 up
\* as worth another attempt.
attempt_step_retry_all(cfg, status) ==
    IF status = 0 THEN (IF cfg.catches THEN "sleep" ELSE "propagate")
    ELSE IF status >= 400 THEN "sleep"
    ELSE "return"

\* One pass of the loop body on the outcome of requests.request.
attempt_step(cfg, status) ==
    IF status = 0 THEN (IF cfg.catches THEN "sleep" ELSE "propagate")
    ELSE IF status \in cfg.retriable THEN "sleep"
    ELSE IF status >= 400 THEN "raise"
    ELSE "return"

NetStart(inst) ==
    [inst |-> inst, pc |-> "attempt", attempt |-> 0, seen |-> <<>>,
     delays |-> <<>>, exc |-> "", msg |-> ""]

\* requests.request(...) and the branch taken on its outcome.
NetRequest ==
    /\ net.pc = "attempt"
    /\ \E status \in NetOutcomes :
          LET cfg == Transport(net.inst)
              step == attempt_step(cfg, status)
              seen == Append(net.seen, status)
          IN net' =
              CASE step = "sleep"  -> [net EXCEPT !.pc = "sleep", !.seen = seen]
                [] step = "return" -> [net EXCEPT !.pc = "returned", !.seen = seen]
                [] step = "raise"  -> [net EXCEPT !.pc = "raised", !.seen = seen,
                                                  !.exc = cfg.exc,
                                                  !.msg = "HTTP error"]
                [] OTHER           -> [net EXCEPT !.pc = "raised", !.seen = seen,
                                                  !.exc = "RequestException",
                                                  !.msg = "network error"]
    /\ UNCHANGED <<scored, ranked>>
    /\ UNCHANGED <<storeVars, enrichVars, rateVars>>

\* time.sleep(base_delay * 2**attempt); continue. Leaving the loop after the
\* last attempt raises the "retries exceeded" error.
NetSleep ==
    /\ net.pc = "sleep"
    /\ LET cfg == Transport(net.inst)
           delays == Append(net.delays, cfg.base_delay * Pow2(net.attempt))
       IN net' =
           IF net.attempt + 1 < cfg.retries
           THEN [net EXCEPT !.pc = "attempt", !.attempt = net.attempt + 1,
                            !.delays = delays]
           ELSE [net EXCEPT !.pc = "raised", !.attempt = net.attempt + 1,
                            !.delays = delays, !.exc = cfg.exc,
                            !.msg = "retries exceeded"]
    /\ UNCHANGED <<scored, ranked>>
    /\ UNCHANGED <<storeVars, enrichVars, rateVars>>

(***************************************************************************)
(* SpecNet: one send on either transport. The process is single-threaded,  *)
(* every HTTP call has a timeout and every sleep is finite, so a step that *)
(* is possible is eventually taken.                                        *)
(***************************************************************************)
InitNet ==
    /\ StoreIdle /\ EnrichIdle /\ RateIdle /\ ScoreIdle /\ RankIdle
    /\ net \in {NetStart(inst) : inst \in {"ai", "ebay"}}

NextNet == NetRequest \/ NetSleep

SpecNet == InitNet /\ [][NextNet]_vars /\ WF_vars(NextNet)


(***************************************************************************)
(* Claims about the transports                                             *)
(***************************************************************************)
NetDone == net.pc \in {"returned", "raised"}

\* An attempt that ended in a transient network error or in one of the
\* statuses 429, 500, 502, 503, 504.
Transient(status) == status = 0 \/ status \in {429, 500, 502, 503, 504}

AllTransient(seen, n) == \A k \in 1..n : Transient(seen[k])

LastSeen == net.seen[Len(net.seen)]

\* The outcomes seen so far, continued with 200s so as to make a script for
\* the one-shot _request_with_backoff.
SeenAsScript ==
    [k \in 1..retries |-> IF k <= Len(net.seen) THEN net.seen[k] ELSE 200]

C11_Outcomes ==
    net.inst = "ai" =>
        /\ Len(net.seen) <= 6
        /\ AllTransient(net.seen, Len(net.seen) - 1)
        /\ net.pc = "returned" <=>
              (net.seen # <<>> /\ LastSeen # 0 /\ LastSeen < 400)
        /\ (net.pc = "raised" /\ net.msg = "HTTP error") <=>
              (net.seen # <<>> /\ LastSeen >= 400 /\ ~Transient(LastSeen))
        /\ (net.pc = "raised" /\ net.msg = "HTTP error") =>
              Len(net.delays) = Len(net.seen) - 1
        /\ (net.pc = "raised" /\ net.msg = "retries exceeded") <=>
              (/\ Len(net.seen) = 6 /\ AllTransient(net.seen, 6)
               /\ net.pc # "sleep")
        /\ net.pc = "raised" =>
              /\ net.exc = "AiAnalysisError"
              /\ net.msg \in {"HTTP error", "retries exceeded"}
        /\ net.delays = SubSeq(<<2, 4, 8, 16, 32, 64>>, 1, Len(net.delays))
        /\ net.pc = "attempt" => Len(net.delays) = Len(net.seen)
        /\ NetDone =>
              LET r == _request_with_backoff(SeenAsScript) IN
              /\ (r.kind = "response") <=> (net.pc = "returned")
              /\ r.attempts = Len(net.seen)
              /\ r.delays = net.delays

\* C11: a send on the analysis transport always ends, after at most 6 HTTP
\* attempts, in exactly one of three ways: it returns the first response
\* whose status is below 400, it raises at once on the first status from 400
\* up that is not 429, 500, 502, 503 or 504, or it raises "retries exceeded"
\* when all 6 attempts ended in a transient network error or one of those
\* statuses; the sleep taken after attempt k (from 0) is 2 * 2^k seconds.
C11_SendTerminates == [](C11_Outcomes) /\ ((net.inst = "ai") ~> NetDone)

\* Six attempts that all failed, some by network error and some by status,
\* the sleeps 2, 4, 8, 16, 32, 64 taken, and "retries exceeded" raised.
C11_Witness ==
    /\ net.inst = "ai" /\ net.pc = "raised" /\ net.msg = "retries exceeded"
    /\ net.seen = <<0, 503, 429, 0, 500, 504>>
    /\ net.delays = <<2, 4, 8, 16, 32, 64>>


\* C12: the listing-source transport retries on transient network errors and
\* on each of 429, 500, 502, 503 and 504, so it raises only on a status from
\* 400 up outside that set, or with "retries exceeded" after 5 attempts that
\* all failed in one of those ways.
C12_EbayRetriesTransient ==
    (net.inst = "ebay" /\ net.pc = "raised") =>
        \/ LastSeen >= 400 /\ ~Transient(LastSeen)
        \/ /\ Len(net.seen) = 5 /\ AllTransient(net.seen, 5)
           /\ net.msg = "retries exceeded"


(***************************************************************************)
(* Claims about the calls enrichment makes                                 *)
(***************************************************************************)
Count(ev, x) == Cardinality({k \in DOMAIN ev : ev[k] = x})

BulkCalled == provider.mode = "bulk" /\ phase # "idle"
ItemCalled == provider.mode = "item" /\ phase # "idle"

\* C13: one bulk enrichment call, whatever the size of the batch and however
\* many attempts the transport makes, waits on the rate limiter exactly once,
\* before the first HTTP attempt, and hands exactly one request to the
\* transport; a call stopped by its configuration does neither.
C13_BulkWaitsOnce ==
    BulkCalled =>
        IF BulkCallSends(env)
        THEN /\ Count(events, "rate_limit") = 1
             /\ Count(events, "send") = 1
             /\ Count(events, "http") >= 1
             /\ events[1] = "rate_limit"
             /\ events[2] = "send"
        ELSE events = <<>>

\* A batch of two rows whose request needed three HTTP attempts: one wait,
\* one request.
C13_Witness ==
    /\ BulkCalled /\ phase = "returned"
    /\ Len(rows) >= 2
    /\ Count(events, "http") = 3
    /\ Count(events, "rate_limit") = 1
    /\ Count(events, "send") = 1

\* The provider whose key analyze_listing looks for is selected and its key
\* is absent.
KeyMissing ==
    \/ env.AI_PROVIDER = "gemini" /\ ~env.GEMINI_API_KEY
    \/ env.AI_PROVIDER = "openai" /\ ~env.OPENAI_API_KEY

MissingKeyError ==
    IF env.AI_PROVIDER = "gemini" THEN JStr("GEMINI_API_KEY missing")
    ELSE JStr("OPENAI_API_KEY missing")

\* C14: a per-item call whose provider's API key is absent returns an empty
\* result, every value field null and the error naming the missing key,
\* without any HTTP request; and every per-item call waits on the rate
\* limiter at most once.
C14_MissingKeyNoCall ==
    ItemCalled =>
        /\ Count(events, "rate_limit") <= 1
        /\ KeyMissing =>
              /\ phase = "returned"
              /\ AllValuesNull(result)
              /\ result.ai_error = MissingKeyError
              /\ Count(events, "send") = 0
              /\ Count(events, "http") = 0

\* Gemini selected without GEMINI_API_KEY while the OpenAI key is set: the
\* call returns the empty result after its one wait.
C14_Witness ==
    /\ ItemCalled /\ phase = "returned"
    /\ env.AI_PROVIDER = "gemini" /\ ~env.GEMINI_API_KEY /\ env.OPENAI_API_KEY
    /\ result.ai_error = JStr("GEMINI_API_KEY missing")
    /\ events = <<"rate_limit">>


(***************************************************************************)
(* scoring.py. The text of a listing is modelled by the set of keywords    *)
(* that occur in its lower-cased title and descriptions; amounts are whole *)
(* numbers and feedback percentages are in tenths of a percent.            *)
(***************************************************************************)
KEYWORDS ==
    <<[keyword |-> "not working", weight |-> 12],
      [keyword |-> "for parts", weight |-> 10],
      [keyword |-> "repair", weight |-> 8],
      [keyword |-> "untested", weight |-> 8],
      [keyword |-> "as is", weight |-> 6],
      [keyword |-> "needs battery", weight |-> 6],
      [keyword |-> "unknown", weight |-> 4]>>

MIN_FEEDBACK_PCT == 975
MIN_FEEDBACK_SCORE == 50

\* score += delta; reasons.append(tag)
Fired(acc, delta, tag) ==
    [score |-> acc.score + delta, reasons |-> Append(acc.reasons, tag)]

RECURSIVE keyword_loop(_, _, _)
\* for keyword, weight in KEYWORDS.items(): if keyword in normalized: ...
keyword_loop(normalized, i, acc) ==
    IF i > Len(KEYWORDS) THEN acc
    ELSE keyword_loop(normalized, i + 1,
            IF KEYWORDS[i].keyword \in normalized
            THEN Fired(acc, KEYWORDS[i].weight, KEYWORDS[i].keyword)
            ELSE acc)

\* _extract_price: the price, the first shipping cost when the listing has
\* shipping options, and their sum with a missing shipping cost taken as 0;
\* no sum when the price does not parse.
_extract_price(item) ==
    LET price_value == _safe_float(item.price)
        shipping_value == IF item.shippingOptions # <<>>
                          THEN _safe_float(item.shippingOptions[1])
                          ELSE JNull
    IN [price_value |-> price_value,
        shipping_value |-> shipping_value,
        all_in_cost |-> IF IsNone(price_value) THEN JNull
                        ELSE JNum(price_value.n + OrZero(shipping_value))]

\* score_item up to the return-policy rule: keywords, condition, seller
\* feedback percentage and count, returns.
score_before_price(item, min_feedback_pct, min_feedback_score) ==
    LET kw == keyword_loop(item.keywords, 1, [score |-> 0, reasons |-> <<>>])
        cond == IF Truthy(item.conditionId) /\ item.conditionId.s = "7000"
                THEN Fired(kw, 10, "condition:for_parts") ELSE kw
        pct == IF IsNone(item.feedbackPercentage)
               THEN Fired(cond, 0, "seller:missing_feedback_pct")
               ELSE IF item.feedbackPercentage.n >= min_feedback_pct
                    THEN Fired(cond, 5, "seller:high_feedback_pct")
                    ELSE Fired(cond, 0 - 8, "seller:low_feedback_pct")
        fsc == IF IsNone(item.feedbackScore)
               THEN Fired(pct, 0, "seller:missing_feedback_score")
               ELSE IF item.feedbackScore.n >= min_feedback_score
                    THEN Fired(pct, 5, "seller:high_feedback_score")
                    ELSE Fired(pct, 0 - 6, "seller:low_feedback_score")
    IN IF item.returnsAccepted = JBool(TRUE)
       THEN Fired(fsc, 4, "returns:accepted")
       ELSE IF item.returnsAccepted = JBool(FALSE)
            THEN Fired(fsc, 0 - 4, "returns:not_accepted")
            ELSE fsc

\* A bug the cost rule could have: bands that leave their upper ends out.
cost_band_open(acc, all_in_cost) ==
    IF IsNone(all_in_cost) THEN acc
    ELSE IF all_in_cost.n < 100 THEN Fired(acc, 4, "price:<=100")
    ELSE IF all_in_cost.n < 200 THEN Fired(acc, 2, "price:<=200")
    ELSE IF all_in_cost.n > 300 THEN Fired(acc, 0 - 3, "price:>300")
    ELSE acc

\* The cost rule of score_item.
cost_band(acc, all_in_cost) ==
    IF IsNone(all_in_cost) THEN acc
    ELSE IF all_in_cost.n <= 100 THEN Fired(acc, 4, "price:<=100")
    ELSE IF all_in_cost.n <= 200 THEN Fired(acc, 2, "price:<=200")
    ELSE IF all_in_cost.n > 300 THEN Fired(acc, 0 - 3, "price:>300")
    ELSE acc

\* round(score, 2) leaves a whole number as it is.
score_item(item, min_feedback_pct, min_feedback_score) ==
    cost_band(score_before_price(item, min_feedback_pct, min_feedback_score),
              _extract_price(item).all_in_cost)

\* The listings scoring is tried on: price.value and the shippingCost.value
\* of each shipping option are a number, a numeral string, an unparseable
\* string or missing.
Listings ==
    [keywords : SUBSET {"for parts", "untested"},
     conditionId : {JNull, JStr("7000"), JStr("3000")},
     feedbackPercentage : {JNull, JNum(950), JNum(990)},
     feedbackScore : {JNull, JNum(10), JNum(100)},
     returnsAccepted : {JNull, JBool(TRUE), JBool(FALSE)},
     price : {JNull, JStr("n/a"), JStr("150"), JNum(0), JNum(99), JNum(100),
              JNum(101), JNum(200), JNum(201), JNum(300), JNum(301)},
     shippingOptions : {<<>>, <<JNull>>, <<JStr("n/a")>>, <<JStr("20")>>,
                        <<JNum(0)>>, <<JNum(1)>>, <<JNum(1), JNum(50)>>}]

ScoreItem ==
    /\ scored.pc = "input"
    /\ scored' =
          [pc |-> "scored", item |-> scored.item,
           before |-> score_before_price(scored.item, MIN_FEEDBACK_PCT,
                                         MIN_FEEDBACK_SCORE),
           result |-> score_item(scored.item, MIN_FEEDBACK_PCT,
                                 MIN_FEEDBACK_SCORE)]
    /\ UNCHANGED <<net, ranked>>
    /\ UNCHANGED <<storeVars, enrichVars, rateVars>>

(***************************************************************************)
(* SpecScore: one listing, scored once under the default thresholds.       *)
(***************************************************************************)
InitScore ==
    /\ StoreIdle /\ EnrichIdle /\ RateIdle /\ NetIdle /\ RankIdle
    /\ scored \in {[pc |-> "input", item |-> it, before |-> [score |-> 0, reasons |-> <<>>],
                    result |-> [score |-> 0, reasons |-> <<>>]] : it \in Listings}

NextScore == ScoreItem

SpecScore == InitScore /\ [][NextScore]_vars

\* The all-in cost as the claim words it: the price plus the first shipping
\* cost, 0 when there is none; null when the price does not parse.
ParsedPrice == _safe_float(scored.item.price)

FirstShipping ==
    IF scored.item.shippingOptions = <<>> THEN 0
    ELSE OrZero(_safe_float(scored.item.shippingOptions[1]))

ClaimedCost == ParsedPrice.n + FirstShipping

\* The tags the result has beyond those of the rules before the cost rule.
CostTags ==
    SubSeq(scored.result.reasons, Len(scored.before.reasons) + 1,
           Len(scored.result.reasons))

CostDelta == scored.result.score - scored.before.score

\* C15: with a parseable price and all_in_cost = price + first shipping cost
\* (0 when absent), the cost rule adds 4 and one tag when all_in_cost <= 100,
\* 2 and one tag when 100 < all_in_cost <= 200, -3 and one tag when
\* all_in_cost > 300, and nothing and no tag otherwise; when the price does
\* not parse it adds nothing and no tag. The earlier tags are kept.
C15_CostBands ==
    scored.pc = "scored" =>
        /\ SubSeq(scored.result.reasons, 1, Len(scored.before.reasons))
              = scored.before.reasons
        /\ IF IsNone(ParsedPrice) THEN CostDelta = 0 /\ CostTags = <<>>
           ELSE CASE ClaimedCost <= 100 -> CostDelta = 4 /\ Len(CostTags) = 1
                  [] ClaimedCost > 100 /\ ClaimedCost <= 200 ->
                        CostDelta = 2 /\ Len(CostTags) = 1
                  [] ClaimedCost > 300 -> CostDelta = 0 - 3 /\ Len(CostTags) = 1
                  [] OTHER -> CostDelta = 0 /\ CostTags = <<>>

\* A price of 200 with a first shipping cost of 1 lands in the untagged band,
\* although the price alone would have earned the +2.
C15_Witness ==
    /\ scored.pc = "scored"
    /\ scored.item.price = JNum(200)
    /\ scored.item.shippingOptions = <<JNum(1), JNum(50)>>
    /\ CostDelta = 0 /\ CostTags = <<>>
    /\ scored.item.keywords = {"for parts", "untested"}
    /\ scored.item.conditionId = JStr("7000")
    /\ scored.result.score = 28


(***************************************************************************)
(* app.py: the order of the two output frames. main sorts the candidate    *)
(* rows by score, then cost; _gemini_process_all sorts the enriched rows   *)
(* with SortRows above. A missing value is NaN in the frame and sorts last *)
(* in its column.                                                          *)
(***************************************************************************)
MaxRows == 3        \* rows in a frame handed to a sort

\* sort_values(by = [score_total, all_in_cost], ascending = [False, True]):
\* whether row a sorts strictly before row b.
ScoreBefore(a, b) ==
    LET ca == a.all_in_cost
        cb == b.all_in_cost
    IN IF a.score_total.n # b.score_total.n
       THEN a.score_total.n > b.score_total.n
       ELSE IF IsNone(ca) # IsNone(cb) THEN ~IsNone(ca)
       ELSE ~IsNone(ca) /\ ca.n < cb.n

RECURSIVE InsertCandidate(_, _, _)
InsertCandidate(sorted, x, i) ==
    IF i > Len(sorted) THEN Append(sorted, x)
    ELSE IF ScoreBefore(x, sorted[i])
         THEN SubSeq(sorted, 1, i - 1) \o <<x>> \o SubSeq(sorted, i, Len(sorted))
         ELSE InsertCandidate(sorted, x, i + 1)

RECURSIVE SortCandidates(_, _, _)
\* The stable sort of rs[i..] into acc.
SortCandidates(rs, i, acc) ==
    IF i > Len(rs) THEN acc
    ELSE SortCandidates(rs, i + 1, InsertCandidate(acc, rs[i], 1))

\* The sort keys a row can have: a profit that is missing, negative or
\* positive, two scores, a cost that is missing or one of two amounts.
RankKeys ==
    [ai_estimated_profit : {JNull, JNum(0 - 5), JNum(50)},
     score_total : {JNum(10), JNum(20)},
     all_in_cost : {JNull, JNum(80), JNum(100)}]

\* The frame with sort keys f: a row's itemId is its place in the frame.
Frame(f) ==
    [k \in DOMAIN f |->
        [itemId |-> JNum(k),
         ai_estimated_profit |-> f[k].ai_estimated_profit,
         score_total |-> f[k].score_total,
         all_in_cost |-> f[k].all_in_cost]]

\* main: base_df.sort_values(...), written to candidates.csv.
WriteCandidates ==
    /\ ranked.mode = "none"
    /\ ranked' = [ranked EXCEPT !.mode = "candidates",
                                !.output = SortCandidates(ranked.input, 1, <<>>)]
    /\ UNCHANGED <<net, scored>>
    /\ UNCHANGED <<storeVars, enrichVars, rateVars>>

\* _gemini_process_all: df.sort_values(...), written to gemini_processed.csv.
WriteProcessed ==
    /\ ranked.mode = "none"
    /\ ranked' = [ranked EXCEPT !.mode = "enriched",
                                !.output = SortRows(ranked.input, 1, <<>>)]
    /\ UNCHANGED <<net, scored>>
    /\ UNCHANGED <<storeVars, enrichVars, rateVars>>

(***************************************************************************)
(* SpecRank: a frame of rows, sorted once for one of the two artifacts.    *)
(***************************************************************************)
InitRank ==
    /\ StoreIdle /\ EnrichIdle /\ RateIdle /\ NetIdle /\ ScoreIdle
    /\ \E n \in 1..MaxRows : \E f \in [1..n -> RankKeys] :
          ranked = [mode |-> "none", input |-> Frame(f), output |-> <<>>]

NextRank == WriteCandidates \/ WriteProcessed

SpecRank == InitRank /\ [][NextRank]_vars

\* The earlier row a and the later row b are in the order the enriched
\* artifact promises.
EnrichedOrder(a, b) ==
    LET pa == a.ai_estimated_profit
        pb == b.ai_estimated_profit
    IN /\ ~IsNone(pb) => (~IsNone(pa) /\ pa.n >= pb.n)
       /\ (IsNone(pa) = IsNone(pb) /\ pa.n = pb.n) =>
              a.score_total.n >= b.score_total.n

\* The same for the un-enriched artifact.
CandidateOrder(a, b) ==
    /\ a.score_total.n >= b.score_total.n
    /\ a.score_total.n = b.score_total.n =>
          (~IsNone(b.all_in_cost) =>
              (~IsNone(a.all_in_cost) /\ a.all_in_cost.n <= b.all_in_cost.n))

SameRows(xs, ys) ==
    /\ Len(xs) = Len(ys)
    /\ {xs[k] : k \in DOMAIN xs} = {ys[k] : k \in DOMAIN ys}

\* C16: in the enriched output every adjacent pair has the earlier profit >=
\* the later one, rows without a profit come after all rows with one, and
\* equal profits are ordered by score descending; in the un-enriched output
\* rows are ordered by score descending and, among equal scores, by
\* all_in_cost ascending. The sorted frame has exactly the rows of the input.
C16_RankedOrder ==
    ranked.mode # "none" =>
        /\ SameRows(ranked.input, ranked.output)
        /\ \A i \in 1..(Len(ranked.output) - 1) :
              IF ranked.mode = "enriched"
              THEN EnrichedOrder(ranked.output[i], ranked.output[i + 1])
              ELSE CandidateOrder(ranked.output[i], ranked.output[i + 1])

\* An enriched frame that came in as (no profit, score 20), (profit 50,
\* score 10), (profit 50, score 20) and goes out as third, second, first.
C16_Witness ==
    /\ ranked.mode = "enriched"
    /\ Len(ranked.input) = 3
    /\ IsNone(ranked.input[1].ai_estimated_profit)
    /\ ranked.input[2].ai_estimated_profit = JNum(50)
    /\ ranked.input[2].score_total = JNum(10)
    /\ ranked.input[3].ai_estimated_profit = JNum(50)
    /\ ranked.input[3].score_total = JNum(20)
    /\ ranked.output =
          <<ranked.input[3], ranked.input[2], ranked.input[1]>>


(***************************************************************************)
(* Claims about the profit of a bulk result                                *)
(***************************************************************************)
PartsCost(r) ==
    IF IsNone(r.ai_parts_cost_estimate) THEN 0 ELSE r.ai_parts_cost_estimate.n

\* C17: in bulk mode, every candidate whose identifier the response echoes
\* with a sale-price estimate gets estimated_profit = equivalent_sale_price
\* minus the candidate row's own all_in_cost minus (parts_cost_estimate or
\* 0), whatever all_in_cost the provider's entry carries or leaves out.
\* Stated for the rows whose own all_in_cost is known.
C17_BulkProfitUsesRowCost ==
    BulkReturned =>
        \A j \in 1..Len(output) :
            (/\ RowId(output[j]) \in Echoed
             /\ ~IsNone(output[j].all_in_cost)
             /\ ~IsNone(output[j].ai_equivalent_sale_price)) =>
                output[j].ai_estimated_profit =
                    JNum(output[j].ai_equivalent_sale_price.n
                         - RowCost(output[j]) - PartsCost(output[j]))

=============================================================================
